---- MODULE Spec2Model ----
(***************************************************************************)
(* A model of the slice_as_array crate (src/src/lib.rs):                   *)
(*   slice_as_array!, slice_as_array_mut!  - length-gated reinterpretation *)
(*   slice_to_array_clone!                 - SafeArrayInitialization       *)
(* Memory is one address space `heap`: the caller's backing buffer xs      *)
(* lives at addresses 0..BufLen-1 and the storage of the builder of call c *)
(* at ArrBase(c)..ArrBase(c)+MaxLen-1.  A move of the array (Option::take, *)
(* the return) is an ownership transfer of that storage region.            *)
(***************************************************************************)
EXTENDS Integers, Sequences, FiniteSets, TLC

BufLen == 3
MaxVal == 1
MaxLen == 3

Uninit == -1

Values == 0..MaxVal
Lens == 0..MaxLen
Calls == {1, 2}
Slots == 0..(MaxLen - 1)

XsAddrs == 0..(BufLen - 1)

\* Faulty variant: the builders stage their arrays in one shared buffer.
ArrBaseShared(c) == BufLen + 1

\* Each builder has its own array (a local of the macro's expansion).
ArrBase(c) == BufLen + 1 + (c - 1) * MaxLen
ArrAddrs(c) == ArrBase(c)..(ArrBase(c) + MaxLen - 1)
Addrs == XsAddrs \cup UNION {ArrAddrs(c) : c \in Calls}

None == [some |-> FALSE]
Some(x) == [some |-> TRUE, v |-> x]

\* Faulty variant: the end of the range is not checked against the buffer.
SliceIndexUnchecked(a, b) ==
    IF a > b
    THEN [panic |-> TRUE]
    ELSE [panic |-> FALSE, ptr |-> a, len |-> b - a, lt |-> "xs"]

\* &xs[a..b]: a borrowed sub-range of the backing buffer, or a panic.
SliceIndex(a, b) ==
    IF a > b \/ b > BufLen
    THEN [panic |-> TRUE]
    ELSE [panic |-> FALSE, ptr |-> a, len |-> b - a, lt |-> "xs"]

\* xs.as_ptr() / xs.as_mut_ptr(): the address of the slice's element 0.
as_ptr(xs) == xs.ptr

as_mut_ptr(xs) == xs.ptr

\* Faulty variant: the reference points at a temporary copy of the elements.
this_transmute_copy(xs, len) == [ptr |-> ArrBase(1), len |-> len, lt |-> xs.lt]

\* this_transmute of slice_as_array!: the pointer retyped as a reference to
\* [$t; $len]; the elided lifetime of the result is that of the argument.
this_transmute(xs, len) == [ptr |-> as_ptr(xs), len |-> len, lt |-> xs.lt]

\* Faulty variant: the exclusive reference points at a temporary copy.
this_transmute_mut_copy(xs, len) == [ptr |-> ArrBase(1), len |-> len, lt |-> xs.lt]

\* Faulty variant: the transmute is used without the inner function, so the lifetime
\* of the result is not tied to the argument.
this_transmute_mut_unbound(xs, len) ==
    [ptr |-> as_mut_ptr(xs), len |-> len, lt |-> "unbound"]

\* this_transmute of slice_as_array_mut!.
this_transmute_mut(xs, len) == [ptr |-> as_mut_ptr(xs), len |-> len, lt |-> xs.lt]

\* Faulty variant: a slice longer than the array is accepted.
slice_as_array_ge(s, len) ==
    IF s.len >= len THEN Some(this_transmute(s, len)) ELSE None

\* Faulty variant: an empty array is refused.
slice_as_array_nonempty(s, len) ==
    IF s.len = len /\ len > 0 THEN Some(this_transmute(s, len)) ELSE None

\* slice_as_array!(s, [$t; $len])
slice_as_array(s, len) ==
    IF s.len = len THEN Some(this_transmute(s, len)) ELSE None

\* slice_as_array_mut!(s, [$t; $len])
slice_as_array_mut(s, len) ==
    IF s.len = len THEN Some(this_transmute_mut(s, len)) ELSE None

\* Element i of an array reference / of a slice, read from memory.
ArrayElem(h, arr, i) == h[arr.ptr + i]
SliceElem(h, s, i) == h[s.ptr + i]

\* reexport::clone(*val): the outcomes of the element type's clone, which
\* yields an equal value or faults (panics).
clone(source) == {[ok |-> TRUE, v |-> source], [ok |-> FALSE]}

\* reexport::ptr_write(dst, src): src is moved into dst; the old content of
\* dst is neither read nor dropped.
ptr_write(h, dst, src) == [h EXCEPT ![dst] = src]

\* reexport::ptr_read(src): a bitwise copy of the value at src.
ptr_read(h, src) == h[src]

\* Faulty variant: the builder starts with a count left over from earlier use.
new_stale == [array_some |-> TRUE, count |-> 1]

\* SafeArrayInitialization::new(): uninitialized storage, count 0.
new == [array_some |-> TRUE, count |-> 0]

\* array: Option<[$t; $len]>.  When $t has invalid bit patterns (a niche: a
\* reference, a bool, a char, an enum) and $len > 0, the Option has no tag of
\* its own: None is an invalid pattern of element 0.
TagInPayload(niche, len) == niche /\ len > 0

\* What a read of the discriminant of self.array (as_mut, take) can yield.
\* While a Some keeps its tag in element 0 and element 0 is uninitialized,
\* the read is of uninitialized memory and yields either answer.
Discriminant(array_some, tag_in_payload, slot0) ==
    IF array_some /\ tag_in_payload /\ slot0 = Uninit
    THEN {TRUE, FALSE}
    ELSE {array_some}

\* The builder once it is gone (before new(), after drop).
NoBuilder == [array_some |-> FALSE, count |-> 0]

\* slice.len() != array_mut.len()
LengthMismatch(slice_len, array_len) == slice_len # array_len

\* Faulty variant: the two sides of the zip are swapped.
ZipItemSwapped(c, s, it) == [val |-> ArrBase(c) + it, ptr |-> s.ptr + it]

\* Faulty variant: the slice is walked from its end.
ZipItemRev(c, s, it) ==
    [val |-> s.ptr + (s.len - 1 - it), ptr |-> ArrBase(c) + (s.len - 1 - it)]

\* slice.iter().zip(array_mut.iter_mut()): the pair (val, ptr) of step it,
\* as addresses; the zip ends when either side is exhausted.
ZipHasNext(s, array_len, it) == it < s.len /\ it < array_len
ZipItem(c, s, it) == [val |-> s.ptr + it, ptr |-> ArrBase(c) + it]

\* Faulty variant: the count is not advanced.
count_inc_forgot(count) == count

\* self.count += 1
count_inc(count) == count + 1

\* array.as_mut()[..count]: the slots the teardown visits, or a panic when
\* count exceeds the array's length.
PrefixPanics(count, array_len) == count > array_len

\* Faulty variant: the range is ..=count.
PrefixInclusive(count) == {i \in Slots : i <= count}

Prefix(count) == {i \in Slots : i < count}

\* The instrumented element type: per slot of the array the life of the
\* element placed there, counters of the clone calls, the source indices
\* clone was invoked on and the slots written, in order.
NoProbe ==
    [clones |-> 0, made |-> 0, fault_at |-> -1,
     cloned |-> << >>, placed |-> << >>,
     st |-> [i \in Slots |-> "unpop"],
     drops |-> [i \in Slots |-> 0],
     bad |-> {}]

\* Faulty variant: the array is dropped as a whole instead of forgotten.
drop_array(p, array_len) ==
    [p EXCEPT !.st = [i \in Slots |->
                        IF i < array_len /\ @[i] = "live" THEN "destroyed" ELSE @[i]],
              !.drops = [i \in Slots |-> IF i < array_len THEN @[i] + 1 ELSE @[i]],
              !.bad = @ \cup {i \in Slots : i < array_len /\ p.st[i] # "live"}]

\* reexport::forget(array): the storage is released, no element is dropped.
forget(p, array_len) == p

\* The value ptr_read returns is dropped at the end of the statement.
DropElement(p, i) ==
    [p EXCEPT !.st[i] = IF @ = "live" THEN "destroyed" ELSE @,
              !.drops[i] = @ + 1,
              !.bad = IF p.st[i] = "live" THEN @ ELSE @ \cup {i}]

IdleFrame ==
    [pc |-> "idle", slice |-> [panic |-> TRUE], len |-> 0, niche |-> FALSE, it |-> 0,
     val |-> Uninit, pending |-> "none", outcome |-> "none", ret |-> None,
     dcount |-> 0, di |-> 0]

VARIABLES
    heap,     \* memory: address -> value or Uninit
    phase,    \* position of the calling code
    bop,      \* the borrow conversion in progress: inputs and result
    writes,   \* index -> last value written through the mutable array
    last,     \* the last access the caller made to xs: "none", "array", "direct"
    self,     \* call -> the SafeArrayInitialization (array.is_some(), count)
    frame,    \* call -> the locals and position of slice_to_array_clone!
    probe     \* call -> the instrumentation of the element type

vars == <<heap, phase, bop, writes, last, self, frame, probe>>
borrow_vars == <<phase, bop, writes, last>>
clone_vars == <<self, frame, probe>>

Quiet == \A c \in Calls : frame[c].pc = "idle"

NoOp == [kind |-> "none"]
NoWrites == [i \in Slots |-> Uninit]

\* The borrow of xs taken for the slice is live while a reference whose
\* lifetime is tied to it is held.
LoanLive == phase = "held" /\ bop.res.some /\ bop.res.v.lt = "xs"

Init ==
    /\ heap \in [Addrs -> Values \cup {Uninit}]
    /\ \A x \in XsAddrs : heap[x] \in Values
    /\ \A x \in Addrs \ XsAddrs : heap[x] = Uninit
    /\ phase = "idle"
    /\ bop = NoOp
    /\ writes = NoWrites
    /\ last = "none"
    /\ self = [c \in Calls |-> NoBuilder]
    /\ frame = [c \in Calls |-> IdleFrame]
    /\ probe = [c \in Calls |-> NoProbe]

\* let r = slice_as_array!(&xs[a..b], [T; n]);
CallSliceAsArray(a, b, n) ==
    /\ phase = "idle"
    /\ Quiet
    /\ LET s == SliceIndex(a, b) IN
       IF s.panic
       THEN /\ bop' = [kind |-> "shared", panic |-> TRUE, a |-> a, b |-> b, len |-> n]
            /\ phase' = "panicked"
       ELSE LET r == slice_as_array(s, n) IN
            /\ bop' = [kind |-> "shared", panic |-> FALSE, a |-> a, b |-> b,
                       s |-> s, len |-> n, res |-> r]
            /\ phase' = IF r.some THEN "held" ELSE "ended"
    /\ writes' = NoWrites
    /\ last' = "none"
    /\ UNCHANGED <<heap, clone_vars>>

\* let r = slice_as_array_mut!(&mut xs[a..b], [T; n]);
CallSliceAsArrayMut(a, b, n) ==
    /\ phase = "idle"
    /\ Quiet
    /\ LET s == SliceIndex(a, b) IN
       IF s.panic
       THEN /\ bop' = [kind |-> "mut", panic |-> TRUE, a |-> a, b |-> b, len |-> n]
            /\ phase' = "panicked"
       ELSE LET r == slice_as_array_mut(s, n) IN
            /\ bop' = [kind |-> "mut", panic |-> FALSE, a |-> a, b |-> b,
                       s |-> s, len |-> n, res |-> r]
            /\ phase' = IF r.some THEN "held" ELSE "ended"
    /\ writes' = NoWrites
    /\ last' = "none"
    /\ UNCHANGED <<heap, clone_vars>>

\* r[i] = v through the exclusive array borrow.
WriteArr(i, v) ==
    /\ phase = "held"
    /\ bop.kind = "mut"
    /\ i < bop.res.v.len
    /\ heap' = [heap EXCEPT ![bop.res.v.ptr + i] = v]
    /\ writes' = [writes EXCEPT ![i] = v]
    /\ last' = "array"
    /\ UNCHANGED <<phase, bop, clone_vars>>

\* The scope of the array borrow ends.
EndBorrow ==
    /\ phase = "held"
    /\ phase' = "ended"
    /\ UNCHANGED <<heap, bop, writes, last, clone_vars>>

\* xs[i] = v; the compiler accepts it only while xs is not borrowed.
DirectWrite(i, v) ==
    /\ phase \in {"idle", "held"}
    /\ ~LoanLive
    /\ Quiet
    /\ heap' = [heap EXCEPT ![i] = v]
    /\ last' = "direct"
    /\ UNCHANGED <<phase, bop, writes, clone_vars>>

\* The caller is done with the result (or the test's panic was caught).
Finish ==
    /\ phase \in {"ended", "panicked"}
    /\ phase' = "idle"
    /\ bop' = NoOp
    /\ writes' = NoWrites
    /\ last' = "none"
    /\ UNCHANGED <<heap, clone_vars>>

\* slice_to_array_clone!(&xs[a..b], [T; n]) is entered by call c, with an
\* element type T that has a niche or has none:
\* SafeArrayInitialization::new().init_from_slice(slice)
Call(c, a, b, n, niche) ==
    /\ phase = "idle"
    /\ frame[c].pc = "idle"
    /\ LET s == SliceIndex(a, b) IN
       IF s.panic
       THEN /\ frame' = [frame EXCEPT ![c] =
                           [IdleFrame EXCEPT !.pc = "done", !.outcome = "slice_panic"]]
            /\ UNCHANGED self
       ELSE /\ frame' = [frame EXCEPT ![c] =
                           [IdleFrame EXCEPT !.pc = "unwrap", !.slice = s,
                                             !.len = n, !.niche = niche]]
            /\ self' = [self EXCEPT ![c] = new]
    /\ probe' = [probe EXCEPT ![c] = NoProbe]
    /\ UNCHANGED <<heap, borrow_vars>>

\* The answers a read of the discriminant of call c's self.array can give.
IsSome(c) ==
    Discriminant(self[c].array_some, TagInPayload(frame[c].niche, frame[c].len),
                 heap[ArrBase(c)])

\* let array_mut: &mut [$t] = self.array.as_mut().unwrap().as_mut();
AsMutUnwrap(c) ==
    /\ frame[c].pc = "unwrap"
    /\ \E d \in IsSome(c) :
          frame' = [frame EXCEPT ![c] =
             IF d THEN [@ EXCEPT !.pc = "check"]
                  ELSE [@ EXCEPT !.pc = "drop", !.pending = "fault"]]
    /\ UNCHANGED <<heap, borrow_vars, self, probe>>

\* if slice.len() != array_mut.len() { return None; }
\* debug_assert_eq!(self.count, 0);
LengthCheck(c) ==
    /\ frame[c].pc = "check"
    /\ frame' = [frame EXCEPT ![c] =
         IF LengthMismatch(frame[c].slice.len, frame[c].len)
         THEN [@ EXCEPT !.pc = "drop", !.pending = "absent", !.ret = None]
         ELSE IF self[c].count # 0
         THEN [@ EXCEPT !.pc = "drop", !.pending = "fault"]
         ELSE [@ EXCEPT !.pc = "loop", !.it = 0]]
    /\ UNCHANGED <<heap, borrow_vars, self, probe>>

\* for (val, ptr) in slice.iter().zip(array_mut.iter_mut())
LoopNext(c) ==
    /\ frame[c].pc = "loop"
    /\ frame' = [frame EXCEPT ![c].pc =
         IF ZipHasNext(frame[c].slice, frame[c].len, frame[c].it)
         THEN "clone" ELSE "take"]
    /\ UNCHANGED <<heap, borrow_vars, self, probe>>

\* let val = reexport::clone(*val);
CloneElem(c) ==
    /\ frame[c].pc = "clone"
    /\ LET item == ZipItem(c, frame[c].slice, frame[c].it) IN
       \E o \in clone(heap[item.val]) :
          IF o.ok
          THEN /\ frame' = [frame EXCEPT ![c].pc = "write", ![c].val = o.v]
               /\ probe' = [probe EXCEPT ![c].clones = @ + 1, ![c].made = @ + 1,
                      ![c].cloned = Append(@, item.val - frame[c].slice.ptr)]
          ELSE /\ frame' = [frame EXCEPT ![c].pc = "drop", ![c].pending = "fault"]
               /\ probe' = [probe EXCEPT ![c].clones = @ + 1,
                      ![c].cloned = Append(@, item.val - frame[c].slice.ptr),
                      ![c].fault_at = frame[c].it]
    /\ UNCHANGED <<heap, borrow_vars, self>>

\* Faulty variant: the clone is not placed in its slot.
PtrWriteSkipped(c) ==
    /\ frame[c].pc = "write"
    /\ frame' = [frame EXCEPT ![c].pc = "inc", ![c].val = Uninit]
    /\ UNCHANGED <<heap, borrow_vars, self, probe>>

\* unsafe { reexport::ptr_write(ptr, val) };
PtrWrite(c) ==
    /\ frame[c].pc = "write"
    /\ LET item == ZipItem(c, frame[c].slice, frame[c].it) IN
       /\ heap' = ptr_write(heap, item.ptr, frame[c].val)
       /\ probe' = IF item.ptr \in ArrAddrs(c)
                   THEN [probe EXCEPT ![c].st[item.ptr - ArrBase(c)] = "live",
                                      ![c].placed = Append(@, item.ptr - ArrBase(c))]
                   ELSE probe
    /\ frame' = [frame EXCEPT ![c].pc = "inc", ![c].val = Uninit]
    /\ UNCHANGED <<borrow_vars, self>>

\* self.count += 1;
IncCount(c) ==
    /\ frame[c].pc = "inc"
    /\ self' = [self EXCEPT ![c].count = count_inc(@)]
    /\ frame' = [frame EXCEPT ![c].pc = "loop", ![c].it = @ + 1]
    /\ UNCHANGED <<heap, borrow_vars, probe>>

\* Faulty variant: the array is copied out and self.array stays Some.
TakeKeepsSome(c) ==
    /\ frame[c].pc = "take"
    /\ \E d \in IsSome(c) :
          /\ frame' = [frame EXCEPT ![c].pc = "drop",
                ![c].pending = IF d THEN "present" ELSE "absent",
                ![c].ret = IF d
                           THEN Some([i \in 0..(frame[c].len - 1) |->
                                        heap[ArrBase(c) + i]])
                           ELSE None]
          /\ probe' = IF d
                      THEN [probe EXCEPT ![c].st =
                              [i \in Slots |-> IF @[i] = "live" THEN "handed" ELSE @[i]]]
                      ELSE probe
    /\ UNCHANGED <<heap, borrow_vars, self>>

\* self.array.take(): the array is moved out to the caller.
Take(c) ==
    /\ frame[c].pc = "take"
    /\ \E d \in IsSome(c) :
          /\ frame' = [frame EXCEPT ![c].pc = "drop",
                ![c].pending = IF d THEN "present" ELSE "absent",
                ![c].ret = IF d
                           THEN Some([i \in 0..(frame[c].len - 1) |->
                                        heap[ArrBase(c) + i]])
                           ELSE None]
          /\ self' = [self EXCEPT ![c].array_some = IF d THEN FALSE ELSE @]
          /\ probe' = IF d
                      THEN [probe EXCEPT ![c].st =
                              [i \in Slots |-> IF @[i] = "live" THEN "handed" ELSE @[i]]]
                      ELSE probe
    /\ UNCHANGED <<heap, borrow_vars>>

\* Drop::drop: if let Some(mut array) = self.array.take()
DropBegin(c) ==
    /\ frame[c].pc = "drop"
    /\ \E d \in IsSome(c) :
          IF d
          THEN /\ self' = [self EXCEPT ![c].array_some = FALSE]
               /\ frame' = [frame EXCEPT
                    ![c].pc = IF PrefixPanics(self[c].count, frame[c].len)
                              THEN "abort" ELSE "dropLoop",
                    ![c].dcount = self[c].count, ![c].di = 0]
          ELSE /\ frame' = [frame EXCEPT ![c].pc = "return"]
               /\ UNCHANGED self
    /\ UNCHANGED <<heap, borrow_vars, probe>>

\* for ptr in array.as_mut()[..count].iter_mut() { ptr_read(ptr) }
DropElem(c) ==
    /\ frame[c].pc = "dropLoop"
    /\ IF frame[c].di \in Prefix(frame[c].dcount)
       THEN /\ frame' = [frame EXCEPT ![c].di = @ + 1,
                 ![c].val = ptr_read(heap, ArrBase(c) + frame[c].di)]
            /\ probe' = [probe EXCEPT ![c] = DropElement(@, frame[c].di)]
       ELSE /\ frame' = [frame EXCEPT ![c].pc = "forget", ![c].val = Uninit]
            /\ UNCHANGED probe
    /\ UNCHANGED <<heap, borrow_vars, self>>

\* reexport::forget(array);
Forget(c) ==
    /\ frame[c].pc = "forget"
    /\ probe' = [probe EXCEPT ![c] = forget(@, frame[c].len)]
    /\ frame' = [frame EXCEPT ![c].pc = "return"]
    /\ UNCHANGED <<heap, borrow_vars, self>>

\* The call returns its value, or the fault reaches the caller.
Return(c) ==
    /\ frame[c].pc = "return"
    /\ frame' = [frame EXCEPT ![c].pc = "done", ![c].outcome = frame[c].pending]
    /\ UNCHANGED <<heap, borrow_vars, self, probe>>

\* The caller drops the result; the storage of the call is free again.
Reset(c) ==
    /\ frame[c].pc \in {"done", "abort"}
    /\ frame' = [frame EXCEPT ![c] = IdleFrame]
    /\ self' = [self EXCEPT ![c] = NoBuilder]
    /\ probe' = [probe EXCEPT ![c] = NoProbe]
    /\ heap' = [x \in Addrs |-> IF x \in ArrAddrs(c) THEN Uninit ELSE heap[x]]
    /\ UNCHANGED borrow_vars

Step(c) ==
    \/ AsMutUnwrap(c)
    \/ LengthCheck(c)
    \/ LoopNext(c)
    \/ CloneElem(c)
    \/ PtrWrite(c)
    \/ IncCount(c)
    \/ Take(c)
    \/ DropBegin(c)
    \/ DropElem(c)
    \/ Forget(c)
    \/ Return(c)
    \/ Reset(c)

Borrows ==
    \/ \E a, b \in 0..(BufLen + 1), n \in Lens : CallSliceAsArray(a, b, n)
    \/ \E a, b \in 0..(BufLen + 1), n \in Lens : CallSliceAsArrayMut(a, b, n)
    \/ \E i \in Slots, v \in Values : WriteArr(i, v)
    \/ EndBorrow
    \/ \E i \in XsAddrs, v \in Values : DirectWrite(i, v)
    \/ Finish

\* One caller: the conversions run one at a time.
Next ==
    \/ Borrows
    \/ \E a, b \in 0..(BufLen + 1), n \in Lens, niche \in BOOLEAN :
          Call(1, a, b, n, niche)
    \/ Step(1)

Spec == Init /\ [][Next]_vars

\* Two slices share no element.
Disjoint(s1, s2) == s1.ptr + s1.len <= s2.ptr \/ s2.ptr + s2.len <= s1.ptr

\* Call c is entered while the other call may be running: each expansion of
\* the macro makes its own builder, and the two work on disjoint slices.
CallDisjoint(c, a, b, n, niche) ==
    /\ ~SliceIndex(a, b).panic
    /\ \A d \in Calls \ {c} :
          IF frame[d].pc = "idle" THEN TRUE
          ELSE Disjoint(SliceIndex(a, b), frame[d].slice)
    /\ Call(c, a, b, n, niche)

\* Two callers (threads), each running slice_to_array_clone! calls; their
\* steps interleave.
NextConc ==
    \/ \E b \in 0..BufLen, n \in Lens, niche \in BOOLEAN :
          CallDisjoint(1, 0, b, n, niche)
    \/ \E a \in 0..BufLen, n \in Lens, niche \in BOOLEAN :
          CallDisjoint(2, a, BufLen, n, niche)
    \/ \E c \in Calls : Step(c)

\* One buffer, xs[i] = i mod (MaxVal + 1): the first caller converts slices
\* at its start, the second slices at its end.
InitConc == Init /\ \A x \in XsAddrs : heap[x] = x % (MaxVal + 1)

SpecConc == InitConc /\ [][NextConc]_vars

(***************************************************************************)
(* Properties                                                              *)
(***************************************************************************)

\* A borrow conversion of the given kind has run on a slice that exists.
Converted(kind) == bop.kind = kind /\ ~bop.panic

\* Call c was entered with a slice that exists (the range did not panic).
Entered(c) == frame[c].pc # "idle" /\ ~frame[c].slice.panic

SlotsIn(c, state) == {i \in Slots : probe[c].st[i] = state}

\* The slots 0..k-1.
Below(k) == {i \in Slots : i < k}

\* C1: slice_as_array! on a slice of length L with target length N returns
\* Some if and only if L = N, and None otherwise.
C1_PresentIffLengthEqual ==
    Converted("shared") => (bop.res.some <=> bop.s.len = bop.len)

C1_Witness ==
    /\ Converted("shared")
    /\ bop.res.some
    /\ bop.s.ptr = 1
    /\ bop.len = 2

\* C2: when slice_as_array! returns Some, the array is a view of the slice's
\* memory: its length is N, element i of the array is element i of the slice
\* for every i < N, and element 0 of the array has the address of element 0
\* of the slice.
C2_ZeroCopyView ==
    (Converted("shared") /\ bop.res.some) =>
        /\ bop.res.v.len = bop.len
        /\ bop.res.v.ptr = bop.s.ptr
        /\ \A i \in 0..(bop.len - 1) :
              ArrayElem(heap, bop.res.v, i) = SliceElem(heap, bop.s, i)

C2_Witness ==
    /\ Converted("shared")
    /\ bop.res.some
    /\ bop.s.ptr = 1
    /\ bop.len = 2
    /\ ArrayElem(heap, bop.res.v, 0) # ArrayElem(heap, bop.res.v, 1)

\* C3: slice_as_array_mut! returns Some if and only if the slice length is N,
\* and once the borrow has ended every index written through the array holds,
\* in the slice, the value last written there.
C3_MutAliasesSlice ==
    Converted("mut") =>
        /\ bop.res.some <=> bop.s.len = bop.len
        /\ phase = "ended" =>
              \A i \in Slots :
                 writes[i] # Uninit =>
                    /\ i < bop.s.len
                    /\ SliceElem(heap, bop.s, i) = writes[i]

C3_Witness ==
    /\ Converted("mut")
    /\ phase = "ended"
    /\ bop.s.ptr = 1
    /\ writes[0] = 1
    /\ writes[1] = 0

\* C4: a slice_to_array_clone! call with L = N in which no clone faulted ends
\* with Some(array), the array has N elements and array[i] = source[i] for
\* every i < N.  (Fails: for an element type with a niche the unwrap of line
\* 136 reads the discriminant from the uninitialized element 0 and can panic.)
C4_CloneEqualsSource ==
    \A c \in Calls :
       (/\ Entered(c)
        /\ frame[c].pc = "done"
        /\ frame[c].slice.len = frame[c].len
        /\ probe[c].fault_at = -1) =>
           /\ frame[c].outcome = "present"
           /\ frame[c].ret.some
           /\ DOMAIN frame[c].ret.v = 0..(frame[c].len - 1)
           /\ \A i \in 0..(frame[c].len - 1) :
                 frame[c].ret.v[i] = SliceElem(heap, frame[c].slice, i)

\* C5: no step of a slice_to_array_clone! call, on any of its paths, changes
\* an element of the backing buffer or the slice (its start and its length)
\* the call was given.
C5_SourceUntouched ==
    [][\A c \in Calls :
          /\ (frame[c].pc # "idle" \/ frame'[c].pc # "idle") =>
                \A x \in XsAddrs : heap'[x] = heap[x]
          /\ (frame[c].pc # "idle" /\ frame'[c].pc # "idle") =>
                frame'[c].slice = frame[c].slice]_vars

C5_Witness ==
    /\ Entered(1)
    /\ frame[1].pc = "done"
    /\ frame[1].outcome = "fault"
    /\ probe[1].made = 2

\* C6: a slice_to_array_clone! call with L # N never invokes clone, never
\* faults, and ends with None.  (Fails: the unwrap of line 136 runs before the
\* length check and, for an element type with a niche, can panic.)
C6_MismatchIsAbsentWithoutClone ==
    \A c \in Calls :
       (Entered(c) /\ frame[c].slice.len # frame[c].len) =>
           /\ probe[c].clones = 0
           /\ frame[c].pending # "fault"
           /\ frame[c].pc # "abort"
           /\ frame[c].pc = "done" =>
                 (frame[c].outcome = "absent" /\ frame[c].ret = None)

C8_NoLeak ==
    \A c \in Calls :
       (Entered(c) /\ frame[c].pc = "done") =>
           /\ SlotsIn(c, "live") = {}
           /\ \A i \in SlotsIn(c, "destroyed") : probe[c].drops[i] = 1
           /\ \A i \in SlotsIn(c, "handed") :
                 probe[c].drops[i] = 0 /\ frame[c].outcome = "present"
           /\ probe[c].made = Cardinality(SlotsIn(c, "handed"))
                              + Cardinality(SlotsIn(c, "destroyed"))

C8_Witness ==
    /\ Entered(1)
    /\ frame[1].pc = "done"
    /\ frame[1].outcome = "fault"
    /\ probe[1].made = 2
    /\ Cardinality(SlotsIn(1, "destroyed")) = 2

\* C9: slice_as_array! with N = 0 on an empty slice, wherever in the buffer
\* the empty range starts, returns Some of an empty array at the slice's
\* address.
C9_EmptyIsPresent ==
    (Converted("shared") /\ bop.s.len = 0 /\ bop.len = 0) =>
        /\ bop.res.some
        /\ bop.res.v.len = 0
        /\ bop.res.v.ptr = bop.s.ptr

C9_Witness ==
    /\ Converted("shared")
    /\ bop.s.len = 0
    /\ bop.len = 0
    /\ bop.s.ptr = 1
    /\ bop.res.some

\* C10: while the exclusive array borrow returned by slice_as_array_mut! is
\* held, the borrow of the buffer it came from is live, and the caller has
\* made no access to the buffer except through the array.
C10_ExclusiveWhileHeld ==
    (phase = "held" /\ bop.kind = "mut") => (LoanLive /\ last # "direct")

C10_Witness ==
    /\ phase = "held"
    /\ bop.kind = "mut"
    /\ last = "array"
    /\ bop.len = 2

\* C11 as stated: in every state of a call in which the builder holds its
\* storage, 0 <= count <= N and the populated slots are exactly [0, count).
C11_PopulatedIsExactlyPrefix ==
    \A c \in Calls :
       (Entered(c) /\ self[c].array_some) =>
           /\ 0 <= self[c].count
           /\ self[c].count <= frame[c].len
           /\ SlotsIn(c, "live") = Below(self[c].count)

\* C11 amended: in every state of a call 0 <= count <= N, and while the
\* builder holds its storage the populated slots are exactly [0, count),
\* except between ptr_write and count += 1, when they are exactly [0, count].
C11_PopulatedPrefixUpToPlacedSlot ==
    \A c \in Calls :
       Entered(c) =>
           /\ 0 <= self[c].count
           /\ self[c].count <= frame[c].len
           /\ self[c].array_some =>
                 IF frame[c].pc = "inc"
                 THEN SlotsIn(c, "live") = Below(self[c].count + 1)
                 ELSE SlotsIn(c, "live") = Below(self[c].count)

C11_Witness ==
    /\ Entered(1)
    /\ frame[1].pc = "inc"
    /\ self[1].count = 1
    /\ SlotsIn(1, "live") = {0, 1}

\* C12: for each slot the order is clone, place, increment: the count never
\* exceeds the number of completed clones; a slot becomes populated only in
\* the step after its own clone completed; the count grows only by one and
\* only for a slot that is populated; and at the step a fault arises every
\* slot below count is populated.
C12_ClonePlaceThenCount ==
    /\ [](\A c \in Calls : Entered(c) => self[c].count <= probe[c].made)
    /\ [][\A c \in Calls :
            (frame[c].pc # "idle" /\ frame'[c].pc # "idle") =>
               /\ \A i \in Slots :
                     (probe'[c].st[i] = "live" /\ probe[c].st[i] # "live") =>
                        /\ frame[c].pc = "write"
                        /\ i = self[c].count
                        /\ probe[c].made = i + 1
               /\ self'[c].count # self[c].count =>
                     /\ self'[c].count = self[c].count + 1
                     /\ probe[c].st[self[c].count] = "live"
                     /\ probe[c].made = self[c].count + 1
               /\ (frame'[c].pending = "fault" /\ frame[c].pending # "fault") =>
                     \A i \in Below(self[c].count) : probe[c].st[i] = "live"]_vars

C12_Witness ==
    /\ Entered(1)
    /\ frame[1].pending = "fault"
    /\ probe[1].fault_at = 2
    /\ self[1].count = 2
    /\ probe[1].made = 2

FirstIndices(n) == [i \in 1..n |-> i - 1]

\* C13: once the length check has passed, clone is invoked on the source
\* indices 0, 1, 2, ... in this order, each once; the clone of index i is
\* placed in slot i; the count is the number of placed elements, less one
\* between the placing and the increment; and a call that ends with Some has
\* invoked clone exactly N times and has count = N.
C13_IncreasingOrderOncePerIndex ==
    \A c \in Calls :
       Entered(c) =>
           /\ probe[c].clones <= frame[c].len
           /\ probe[c].cloned = FirstIndices(probe[c].clones)
           /\ probe[c].placed = FirstIndices(probe[c].made
                                             - (IF frame[c].pc = "write" THEN 1 ELSE 0))
           /\ Len(probe[c].placed) =
                 self[c].count + (IF frame[c].pc = "inc" THEN 1 ELSE 0)
           /\ \A i \in Below(Len(probe[c].placed)) :
                 heap[ArrBase(c) + i] = SliceElem(heap, frame[c].slice, i)
           /\ frame[c].pending = "present" =>
                 /\ probe[c].clones = frame[c].len
                 /\ self[c].count = frame[c].len

C13_Witness ==
    /\ Entered(1)
    /\ frame[1].pc = "done"
    /\ frame[1].outcome = "present"
    /\ frame[1].len = 3
    /\ probe[1].cloned = <<0, 1, 2>>
    /\ probe[1].placed = <<0, 1, 2>>

\* C14: from the moment take() has moved the full array out, all N elements
\* belong to the caller: the builder's drop finds None and visits no slot,
\* no element is read or destroyed, and the returned array stays as it was.
C14_NoTeardownAfterHandOff ==
    /\ [](\A c \in Calls :
            (Entered(c) /\ frame[c].pending = "present") =>
               /\ ~self[c].array_some
               /\ frame[c].pc \in {"drop", "return", "done"}
               /\ frame[c].ret.some
               /\ \A i \in Slots :
                     /\ probe[c].st[i] = (IF i < frame[c].len THEN "handed" ELSE "unpop")
                     /\ probe[c].drops[i] = 0
               /\ probe[c].bad = {}
               /\ frame[c].val = Uninit)
    /\ [][\A c \in Calls :
            (frame[c].pending = "present" /\ frame'[c].pc # "idle") =>
               /\ frame'[c].ret = frame[c].ret
               /\ probe'[c] = probe[c]
               /\ \A x \in ArrAddrs(c) : heap'[x] = heap[x]]_vars

C14_Witness ==
    /\ Entered(1)
    /\ frame[1].pc = "done"
    /\ frame[1].outcome = "present"
    /\ frame[1].len = 3
    /\ SlotsIn(1, "handed") = {0, 1, 2}

C16_ThreeOutcomes ==
    \A c \in Calls :
       Entered(c) =>
           /\ probe[c].clones <= frame[c].len
           /\ frame[c].pc # "abort"
           /\ frame[c].pc = "done" =>
                 LET same == frame[c].slice.len = frame[c].len
                     faulted == probe[c].fault_at # -1
                 IN /\ frame[c].outcome \in {"present", "absent", "fault"}
                    /\ frame[c].outcome = "present" <=> (same /\ ~faulted)
                    /\ frame[c].outcome = "absent" <=> ~same
                    /\ frame[c].outcome = "fault" <=> (same /\ faulted)
                    /\ frame[c].outcome = "present" =>
                          (frame[c].ret.some
                           /\ DOMAIN frame[c].ret.v = 0..(frame[c].len - 1))
                    /\ frame[c].outcome = "fault" =>
                          (SlotsIn(c, "live") = {}
                           /\ SlotsIn(c, "destroyed") = Below(self[c].count))

\* C17: with two calls on disjoint slices running interleaved, a step that
\* is not call c's own changes nothing of c (its builder, its locals, the
\* life of its elements, its storage) and no step changes the buffer; and
\* each call ends as it does alone: Some holds the source's elements and all
\* N were handed over, a clone fault at k leaves count = k with exactly the
\* slots [0, k) destroyed once, and no slot is read or destroyed in error.
C17_CallsShareNoState ==
    /\ [][\A c \in Calls :
            /\ frame'[c] = frame[c] =>
                  /\ self'[c] = self[c]
                  /\ probe'[c] = probe[c]
                  /\ \A x \in ArrAddrs(c) : heap'[x] = heap[x]
            /\ \A x \in XsAddrs : heap'[x] = heap[x]]_vars
    /\ [](\A c \in Calls :
            Entered(c) =>
               /\ probe[c].bad = {}
               /\ \A i \in Slots : probe[c].drops[i] <= 1
               /\ self[c].count <= frame[c].len
               /\ \A i \in Below(Len(probe[c].placed)) :
                     heap[ArrBase(c) + i] = SliceElem(heap, frame[c].slice, i)
               /\ (frame[c].pc = "done" /\ frame[c].outcome = "present") =>
                     /\ SlotsIn(c, "handed") = Below(frame[c].len)
                     /\ \A i \in 0..(frame[c].len - 1) :
                           frame[c].ret.v[i] = SliceElem(heap, frame[c].slice, i)
               /\ (frame[c].pc = "done" /\ probe[c].fault_at # -1) =>
                     /\ frame[c].outcome = "fault"
                     /\ self[c].count = probe[c].fault_at
                     /\ SlotsIn(c, "destroyed") = Below(probe[c].fault_at)
                     /\ SlotsIn(c, "live") = {})

C17_Witness ==
    /\ frame[1].pc = "dropLoop"
    /\ probe[1].fault_at = 1
    /\ frame[1].di = 1
    /\ frame[2].pc = "inc"
    /\ probe[2].st[0] = "live"

\* C18: slice_as_array!(&xs[a..b], [T; N]) with b past the end of the buffer
\* panics: there is no result, neither Some nor None; and every element of an
\* array that slice_as_array! does return lies inside the buffer.
C18_OverlongRangeFaults ==
    bop.kind = "shared" =>
        /\ bop.b > BufLen => (bop.panic /\ phase = "panicked")
        /\ bop.panic <=> (bop.a > bop.b \/ bop.b > BufLen)
        /\ (~bop.panic /\ bop.res.some) =>
              \A i \in 0..(bop.res.v.len - 1) : bop.res.v.ptr + i \in XsAddrs

C18_Witness ==
    /\ bop.kind = "shared"
    /\ bop.panic
    /\ phase = "panicked"
    /\ bop.a = 1
    /\ bop.b = BufLen + 1
    /\ bop.len = bop.b - bop.a

\* C19: debug_assert_eq!(self.count, 0) in init_from_slice never fails: from
\* the creation of a builder up to the first step of the clone loop its count
\* is 0, whatever another builder's count is, and the step that evaluates the
\* assertion never ends in a fault.
C19_CountZeroAtLoopEntry ==
    /\ [](\A c \in Calls :
            /\ frame[c].pc \in {"unwrap", "check"} => self[c].count = 0
            /\ (frame[c].pc = "loop" /\ frame[c].it = 0) => self[c].count = 0)
    /\ [][\A c \in Calls :
            frame[c].pc = "check" => frame'[c].pending # "fault"]_vars

C19_Witness ==
    /\ frame[1].pc = "loop"
    /\ frame[1].it = 0
    /\ frame[1].len = 1
    /\ frame[1].slice.len = 1
    /\ self[1].count = 0
    /\ self[2].count = 2

====
